---- MODULE Spec2Model ----
(***************************************************************************)
(* A model of smart_uuid: the UuidType derive macro (smart_uuid_derive),   *)
(* TypedUuid<T> and UserFriendlyUuid<T>.                                   *)
(*                                                                         *)
(* Strings are sequences of one-character strings, bytes are integers in   *)
(* 0..255, a Uuid is a sequence of 16 bytes (byte k of the Rust array is   *)
(* element k+1 of the sequence).  Every value that may be compared with a  *)
(* value of another shape is a record with a "kind" field.                 *)
(***************************************************************************)
EXTENDS Integers, Sequences, FiniteSets, TLC

VARIABLES decl, impl, op, arg, res, origin

vars == <<decl, impl, op, arg, res, origin>>

(***************************************************************************)
(* Bounds of the model.                                                    *)
(***************************************************************************)
\* the number of variants of the enums that are declared
MaxVariants == 3
\* the number of sample values a random or caller-chosen byte is drawn from
NumSamples == 2
\* the length of the variant names that are enumerated
MaxNameLen == 4

(***************************************************************************)
(* Characters and strings.                                                 *)
(***************************************************************************)
UpperChars ==
  <<"A","B","C","D","E","F","G","H","I","J","K","L","M",
    "N","O","P","Q","R","S","T","U","V","W","X","Y","Z">>

LowerChars ==
  <<"a","b","c","d","e","f","g","h","i","j","k","l","m",
    "n","o","p","q","r","s","t","u","v","w","x","y","z">>

Range(s) == {s[i] : i \in 1..Len(s)}

\* char::is_uppercase, on the ASCII characters an identifier is made of
is_uppercase(c) == c \in Range(UpperChars)

\* char::is_lowercase
is_lowercase(c) == c \in Range(LowerChars)

\* c.to_lowercase().next().unwrap()
to_lowercase(c) ==
  IF is_uppercase(c)
  THEN LowerChars[CHOOSE i \in 1..Len(UpperChars) : UpperChars[i] = c]
  ELSE c

RECURSIVE Concat(_)
\* the concatenation of a sequence of strings
Concat(ss) == IF ss = <<>> THEN <<>> ELSE Head(ss) \o Concat(Tail(ss))

\* str::find('_'): the 1-based position of the first underscore, 0 for None
find_underscore(s) ==
  LET hits == {i \in 1..Len(s) : s[i] = "_"}
  IN IF hits = {} THEN 0 ELSE CHOOSE i \in hits : \A j \in hits : i <= j

\* str::rfind('_'): the 1-based position of the last underscore, 0 for None
rfind_underscore(s) ==
  LET hits == {i \in 1..Len(s) : s[i] = "_"}
  IN IF hits = {} THEN 0 ELSE CHOOSE i \in hits : \A j \in hits : j <= i

(***************************************************************************)
(* smart_uuid_derive: to_snake_case                                        *)
(***************************************************************************)
\* the loop body pushing an underscore before every uppercase character,
\* the first one too
snake_step_every_upper(chars, i) ==
  LET c == chars[i + 1]
  IN IF is_uppercase(c) THEN <<"_", to_lowercase(c)>> ELSE <<c>>

\* the loop body without the test of the next character
snake_step_prev_only(chars, i) ==
  LET c == chars[i + 1]
      prev_lower == is_lowercase(chars[i])
  IN IF is_uppercase(c)
     THEN (IF i > 0 /\ prev_lower THEN <<"_">> ELSE <<>>)
          \o <<to_lowercase(c)>>
     ELSE <<c>>

\* what the loop body pushes for the character at (0-based) position i
snake_step(chars, i) ==
  LET c == chars[i + 1]
      prev_lower == is_lowercase(chars[i])
      next_lower == IF i + 2 <= Len(chars) THEN is_lowercase(chars[i + 2]) ELSE FALSE
  IN IF is_uppercase(c)
     THEN (IF i > 0 /\ (prev_lower \/ next_lower) THEN <<"_">> ELSE <<>>)
          \o <<to_lowercase(c)>>
     ELSE <<c>>

to_snake_case(s) == Concat([k \in 1..Len(s) |-> snake_step(s, k - 1)])

(***************************************************************************)
(* smart_uuid_derive: the derive input and get_prefix_from_attrs           *)
(*                                                                         *)
(* A derive input is [data, ident, variants]; a variant is                 *)
(* [ident, fields, attrs]; an attribute is [path, style, metas] and a      *)
(* nested meta is [key, eq, lit, value]: the key, whether "= ..." follows, *)
(* the kind of what follows ("str", "int", "expr", "none") and its text.   *)
(***************************************************************************)
NoneV == [kind |-> "None"]
Some(v) == [kind |-> "Some", value |-> v]

CompileError(msg) == [kind |-> "CompileError", message |-> msg]

\* the closure given to parse_nested_meta, on one nested meta: the state
\* st = [prefix, had_error, failed] after it
meta_logic(st, meta) ==
  IF st.failed.kind = "Some" THEN st
  ELSE IF meta.key = "prefix"
  THEN IF meta.eq /\ meta.lit = "str"
       THEN [st EXCEPT !.prefix = Some(meta.value)]
       ELSE [st EXCEPT !.failed = Some("syn parse error")]
  ELSE LET st1 == [st EXCEPT !.had_error = Some(meta.key)]
       IN IF meta.eq /\ meta.lit \notin {"str", "int"}
          THEN [st1 EXCEPT !.failed = Some("syn parse error")]
          ELSE st1

RECURSIVE parse_nested_meta(_, _)
parse_nested_meta(st, metas) ==
  IF metas = <<>> THEN st
  ELSE parse_nested_meta(meta_logic(st, Head(metas)), Tail(metas))

RECURSIVE get_prefix_from_attrs(_)
\* Ok(Some(p)), Ok(None) or Err(e)
get_prefix_from_attrs(attrs) ==
  IF attrs = <<>> THEN [kind |-> "Ok", prefix |-> NoneV]
  ELSE LET attr == Head(attrs) IN
    IF attr.path # "uuid_type" THEN get_prefix_from_attrs(Tail(attrs))
    ELSE IF attr.style # "list"
    THEN [kind |-> "Err", error |-> CompileError("syn parse error")]
    ELSE LET st == parse_nested_meta(
                     [prefix |-> NoneV, had_error |-> NoneV, failed |-> NoneV],
                     attr.metas)
         IN IF st.failed.kind = "Some"
            THEN [kind |-> "Err", error |-> CompileError(st.failed.value)]
            ELSE IF st.had_error.kind = "Some"
            THEN [kind |-> "Err",
                  error |-> [kind |-> "CompileError",
                             message |-> "unknown uuid_type attribute. Expected prefix",
                             key |-> st.had_error.value]]
            ELSE IF st.prefix.kind = "Some"
            THEN [kind |-> "Ok", prefix |-> st.prefix]
            ELSE get_prefix_from_attrs(Tail(attrs))

(***************************************************************************)
(* smart_uuid_derive: impl_uuid_type                                       *)
(***************************************************************************)
\* `i as u8`
as_u8(i) == i % 256

\* discriminant_arms numbering the variants from 1
discriminant_arms_from_one(variants) ==
  [k \in 1..Len(variants) |->
     [variant |-> variants[k].ident, discriminant |-> as_u8(k)]]

\* the arms `Self::#variant_name => #discriminant`, in declaration order
discriminant_arms(variants) ==
  [k \in 1..Len(variants) |->
     [variant |-> variants[k].ident, discriminant |-> as_u8(k - 1)]]

\* the arms `#discriminant => Some(Self::#variant_name)`, in declaration order
from_discriminant_arms(variants) ==
  [k \in 1..Len(variants) |->
     [discriminant |-> as_u8(k - 1), variant |-> variants[k].ident]]

\* the prefix chosen for one variant with the override left aside
variant_prefix_ignoring_override(v) ==
  LET r == get_prefix_from_attrs(v.attrs) IN
  IF r.kind = "Err" THEN r
  ELSE [kind |-> "Ok", value |-> to_snake_case(v.ident)]

\* the prefix chosen for one variant: Ok(p) or Err(e)
variant_prefix(v) ==
  LET r == get_prefix_from_attrs(v.attrs) IN
  IF r.kind = "Err" THEN r
  ELSE IF r.prefix.kind = "Some" THEN [kind |-> "Ok", value |-> r.prefix.value]
  ELSE [kind |-> "Ok", value |-> to_snake_case(v.ident)]

\* impl_uuid_type without the check of the number of variants
impl_uuid_type_no_limit(input) ==
  IF input.data # "enum"
  THEN CompileError("UuidType can only be derived for enums")
  ELSE LET variants == input.variants IN
  IF \E k \in 1..Len(variants) : variants[k].fields # "Unit"
  THEN CompileError("UuidType can only be derived for enums with unit variants (no fields)")
  ELSE IF variants = <<>>
  THEN CompileError("UuidType cannot be derived for empty enums (at least one variant required)")
  ELSE LET prefixes == [k \in 1..Len(variants) |-> variant_prefix(variants[k])]
           bad == {k \in 1..Len(variants) : prefixes[k].kind = "Err"}
       IN IF bad # {}
          THEN prefixes[CHOOSE k \in bad : \A j \in bad : k <= j].error
          ELSE [kind |-> "Impl",
                name |-> input.ident,
                discriminant_arms |-> discriminant_arms(variants),
                from_discriminant_arms |-> from_discriminant_arms(variants),
                prefix_arms |-> [k \in 1..Len(variants) |->
                                   [variant |-> variants[k].ident,
                                    prefix |-> prefixes[k].value]]]

impl_uuid_type(input) ==
  IF input.data # "enum"
  THEN CompileError("UuidType can only be derived for enums")
  ELSE LET variants == input.variants IN
  IF \E k \in 1..Len(variants) : variants[k].fields # "Unit"
  THEN CompileError("UuidType can only be derived for enums with unit variants (no fields)")
  ELSE IF variants = <<>>
  THEN CompileError("UuidType cannot be derived for empty enums (at least one variant required)")
  ELSE IF Len(variants) > 256
  THEN CompileError("UuidType can only be derived for enums with at most 256 variants")
  ELSE LET prefixes == [k \in 1..Len(variants) |-> variant_prefix(variants[k])]
           bad == {k \in 1..Len(variants) : prefixes[k].kind = "Err"}
       IN IF bad # {}
          THEN prefixes[CHOOSE k \in bad : \A j \in bad : k <= j].error
          ELSE [kind |-> "Impl",
                name |-> input.ident,
                discriminant_arms |-> discriminant_arms(variants),
                from_discriminant_arms |-> from_discriminant_arms(variants),
                prefix_arms |-> [k \in 1..Len(variants) |->
                                   [variant |-> variants[k].ident,
                                    prefix |-> prefixes[k].value]]]

(***************************************************************************)
(* The generated impl of smart_uuid::UuidType: a `match` takes the first   *)
(* arm whose pattern fits.                                                 *)
(***************************************************************************)
FirstArm(hits) ==
  IF hits = {} THEN 0 ELSE CHOOSE k \in hits : \A j \in hits : k <= j

\* the variants of the derived type
Variants(T) == {T.discriminant_arms[k].variant : k \in 1..Len(T.discriminant_arms)}

\* fn discriminant(&self) -> u8
discriminant(T, t) ==
  LET arms == T.discriminant_arms
  IN arms[FirstArm({k \in 1..Len(arms) : arms[k].variant = t})].discriminant

\* fn from_discriminant(value: u8) -> Option<Self>
from_discriminant(T, value) ==
  LET arms == T.from_discriminant_arms
      k == FirstArm({j \in 1..Len(arms) : arms[j].discriminant = value})
  IN IF k = 0 THEN NoneV ELSE Some(arms[k].variant)

\* fn prefix(&self) -> &'static str
prefix(T, t) ==
  LET arms == T.prefix_arms
  IN arms[FirstArm({k \in 1..Len(arms) : arms[k].variant = t})].prefix

(***************************************************************************)
(* The uuid crate, as far as smart_uuid uses it: Uuid::new_v8,             *)
(* Uuid::as_bytes, Display (lower-case hyphenated) and Uuid::parse_str     *)
(* (simple, hyphenated, braced and URN forms, hex digits of either case).  *)
(***************************************************************************)
HexLower == <<"0","1","2","3","4","5","6","7","8","9","a","b","c","d","e","f">>
HexUpper == <<"0","1","2","3","4","5","6","7","8","9","A","B","C","D","E","F">>

\* the value of a hex digit of either case, -1 for any other character
HexVal(c) ==
  IF c \in Range(HexLower) THEN (CHOOSE i \in 1..16 : HexLower[i] = c) - 1
  ELSE IF c \in Range(HexUpper) THEN (CHOOSE i \in 1..16 : HexUpper[i] = c) - 1
  ELSE -1

\* new_v8 without the normalization (Uuid::from_bytes)
new_v8_from_bytes(buf) == buf

\* new_v8 setting the version nibble only
new_v8_version_only(buf) == [buf EXCEPT ![7] = (buf[7] % 16) + 128]

\* Uuid::new_v8(buf): the version nibble of byte 6 and the variant bits of
\* byte 8 are overwritten, every other bit is kept
new_v8(buf) ==
  [buf EXCEPT ![7] = (buf[7] % 16) + 128, ![9] = (buf[9] % 64) + 128]

\* uuid.get_version_num()
get_version_num(bytes) == bytes[7] \div 16

\* the 32 hex digits of a Uuid, most significant nibble first
HexDigits(bytes, hex) ==
  [k \in 1..32 |-> LET b == bytes[(k + 1) \div 2]
                   IN hex[(IF k % 2 = 1 THEN b \div 16 ELSE b % 16) + 1]]

\* the hyphenated form of 32 hex digits: 8-4-4-4-12
Hyphenate(h) ==
  SubSeq(h, 1, 8) \o <<"-">> \o SubSeq(h, 9, 12) \o <<"-">> \o SubSeq(h, 13, 16)
  \o <<"-">> \o SubSeq(h, 17, 20) \o <<"-">> \o SubSeq(h, 21, 32)

\* impl Display for Uuid: `write!(f, "{}", uuid)`
uuid_to_string(bytes) == Hyphenate(HexDigits(bytes, HexLower))

\* 32 hex digits to 16 bytes; an Err when one of them is no hex digit
parse_simple(s) ==
  IF \E k \in 1..32 : HexVal(s[k]) < 0
  THEN [kind |-> "Err", uuid_error |-> "invalid character"]
  ELSE [kind |-> "Ok",
        uuid |-> [k \in 1..16 |-> HexVal(s[2 * k - 1]) * 16 + HexVal(s[2 * k])]]

\* 36 characters, hyphens at (0-based) positions 8, 13, 18 and 23
parse_hyphenated(s) ==
  IF s[9] # "-" \/ s[14] # "-" \/ s[19] # "-" \/ s[24] # "-"
  THEN [kind |-> "Err", uuid_error |-> "invalid group"]
  ELSE parse_simple(SubSeq(s, 1, 8) \o SubSeq(s, 10, 13) \o SubSeq(s, 15, 18)
                    \o SubSeq(s, 20, 23) \o SubSeq(s, 25, 36))

UrnPrefix == <<"u","r","n",":","u","u","i","d",":">>

\* Uuid::parse_str(input): Ok(uuid) or Err(e)
uuid_parse_str(s) ==
  IF Len(s) = 32 THEN parse_simple(s)
  ELSE IF Len(s) = 36 THEN parse_hyphenated(s)
  ELSE IF Len(s) = 38 /\ s[1] = "{" /\ s[38] = "}"
  THEN parse_hyphenated(SubSeq(s, 2, 37))
  ELSE IF Len(s) = 45 /\ SubSeq(s, 1, 9) = UrnPrefix
  THEN parse_hyphenated(SubSeq(s, 10, 45))
  ELSE [kind |-> "Err", uuid_error |-> "invalid length"]

(***************************************************************************)
(* smart_uuid: TypedUuidError, Result                                      *)
(***************************************************************************)
Ok(v) == [kind |-> "Ok", value |-> v]
Err(e) == [kind |-> "Err", error |-> e]

InvalidDiscriminant(found, type_name) ==
  [kind |-> "InvalidDiscriminant", found |-> found, type_name |-> type_name]
ParseError(detail) == [kind |-> "ParseError", detail |-> detail]
UnknownPrefix(p, type_name) ==
  [kind |-> "UnknownPrefix", prefix |-> p, type_name |-> type_name]
InvalidFormat(msg) == [kind |-> "InvalidFormat", message |-> msg]

\* std::any::type_name::<T>()
type_name(T) == T.name

(***************************************************************************)
(* smart_uuid: TypedUuid<T>                                                *)
(***************************************************************************)
TypedUuid(uuid) == [kind |-> "TypedUuid", inner |-> uuid]

\* TypedUuid::new without `bytes[0] = variant.discriminant()`
TypedUuid_new_random_byte0(T, variant, rnd) == TypedUuid(new_v8(rnd))

\* TypedUuid::new(variant), rnd being the 16 bytes rng.fill() wrote
TypedUuid_new(T, variant, rnd) ==
  LET bytes == [rnd EXCEPT ![1] = discriminant(T, variant)]
      uuid == new_v8(bytes)
  IN TypedUuid(uuid)

\* from_uuid rejecting every Uuid that is not of version 8 as well
TypedUuid_from_uuid_v8_only(T, uuid) ==
  IF from_discriminant(T, uuid[1]).kind = "None" \/ get_version_num(uuid) # 8
  THEN Err(InvalidDiscriminant(uuid[1], type_name(T)))
  ELSE Ok(TypedUuid(uuid))

\* from_uuid without the validation
TypedUuid_from_uuid_unchecked(T, uuid) == Ok(TypedUuid(uuid))

\* TypedUuid::from_uuid(uuid)
TypedUuid_from_uuid(T, uuid) ==
  LET found == uuid[1]
  IN IF from_discriminant(T, found).kind = "None"
     THEN Err(InvalidDiscriminant(found, type_name(T)))
     ELSE Ok(TypedUuid(uuid))

\* TypedUuid::variant_type(&self): the variant returned, or the panic of
\* `.expect(...)`
TypedUuid_variant_type(T, x) ==
  LET r == from_discriminant(T, x.inner[1])
  IN IF r.kind = "None"
     THEN [kind |-> "Panic",
           message |-> "TypedUuid contains invalid discriminant - this is a bug"]
     ELSE [kind |-> "Returned", value |-> r.value]

\* TypedUuid::as_uuid / into_uuid / From<TypedUuid<T>> for Uuid
TypedUuid_as_uuid(x) == x.inner

\* TypedUuid::as_bytes
TypedUuid_as_bytes(x) == x.inner

\* TypedUuid::into_uuid
TypedUuid_into_uuid(x) == x.inner

\* impl From<TypedUuid<T>> for Uuid
Uuid_from(typed) == typed.inner

\* impl Display for TypedUuid
TypedUuid_to_string(x) == uuid_to_string(x.inner)

\* from_str building the identifier with Uuid::new_v8
TypedUuid_from_str_new_v8(T, s) ==
  LET r == uuid_parse_str(s)
  IN IF r.kind = "Err" THEN Err(ParseError(r.uuid_error))
     ELSE TypedUuid_from_uuid(T, new_v8(r.uuid))

\* from_str refusing a Uuid that is not of version 8
TypedUuid_from_str_version_checked(T, s) ==
  LET r == uuid_parse_str(s)
  IN IF r.kind = "Err" THEN Err(ParseError(r.uuid_error))
     ELSE IF get_version_num(r.uuid) # 8 THEN Err(ParseError("invalid version"))
     ELSE TypedUuid_from_uuid(T, r.uuid)

\* impl FromStr for TypedUuid
TypedUuid_from_str(T, s) ==
  LET r == uuid_parse_str(s)
  IN IF r.kind = "Err" THEN Err(ParseError(r.uuid_error))
     ELSE TypedUuid_from_uuid(T, r.uuid)

\* Uuid::deserialize on a self-describing value: a string is parsed, a byte
\* string must hold 16 bytes
Uuid_deserialize(wire) ==
  IF wire.kind = "Str" THEN uuid_parse_str(wire.chars)
  ELSE IF Len(wire.bytes) = 16 THEN [kind |-> "Ok", uuid |-> wire.bytes]
  ELSE [kind |-> "Err", uuid_error |-> "invalid length"]

\* serde::de::Error::custom(e)
DeError(e) == [kind |-> "DeError", custom |-> e]

\* Deserialize for TypedUuid without the validation of from_uuid
TypedUuid_deserialize_unvalidated(T, wire) ==
  LET r == Uuid_deserialize(wire)
  IN IF r.kind = "Err" THEN Err([kind |-> "DeError", uuid_error |-> r.uuid_error])
     ELSE Ok(TypedUuid(r.uuid))

\* impl Deserialize for TypedUuid
TypedUuid_deserialize(T, wire) ==
  LET r == Uuid_deserialize(wire)
  IN IF r.kind = "Err" THEN Err([kind |-> "DeError", uuid_error |-> r.uuid_error])
     ELSE LET t == TypedUuid_from_uuid(T, r.uuid)
          IN IF t.kind = "Err" THEN Err(DeError(t.error)) ELSE t

\* Uuid::serialize: the hyphenated string with a human-readable serializer,
\* the 16 bytes with a binary one
Uuid_serialize(uuid, human_readable) ==
  IF human_readable THEN [kind |-> "Str", chars |-> uuid_to_string(uuid)]
  ELSE [kind |-> "Bytes", bytes |-> uuid]

\* impl Serialize for TypedUuid
TypedUuid_serialize(x, human_readable) == Uuid_serialize(x.inner, human_readable)

(***************************************************************************)
(* smart_uuid: UserFriendlyUuid<T>                                         *)
(***************************************************************************)
UserFriendlyUuid(typed) == [kind |-> "UserFriendlyUuid", typed_uuid |-> typed]

\* UserFriendlyUuid::new(variant)
UserFriendlyUuid_new(T, variant, rnd) == UserFriendlyUuid(TypedUuid_new(T, variant, rnd))

\* UserFriendlyUuid::from_typed_uuid / From<TypedUuid<T>>
from_typed_uuid(typed) == UserFriendlyUuid(typed)

\* into_typed_uuid building its result with Uuid::new_v8
into_typed_uuid_new_v8(y) == TypedUuid(new_v8(y.typed_uuid.inner))

\* UserFriendlyUuid::into_typed_uuid / From<UserFriendlyUuid<T>> for TypedUuid<T>
into_typed_uuid(y) == y.typed_uuid

\* UserFriendlyUuid::variant_type
UserFriendlyUuid_variant_type(T, y) == TypedUuid_variant_type(T, y.typed_uuid)

\* UserFriendlyUuid::prefix: the prefix returned, or variant_type's panic
UserFriendlyUuid_prefix(T, y) ==
  LET v == TypedUuid_variant_type(T, y.typed_uuid)
  IN IF v.kind = "Panic" THEN v
     ELSE [kind |-> "Returned", value |-> prefix(T, v.value)]

\* parse_str from the split on: the prefix part and the Uuid part are those
\* around the underscore at underscore_pos
parse_str_split(T, s, underscore_pos) ==
  LET prefix_part == SubSeq(s, 1, underscore_pos - 1)
      uuid_str == SubSeq(s, underscore_pos + 1, Len(s))
      uuid == uuid_parse_str(uuid_str)
  IN IF uuid.kind = "Err" THEN Err(ParseError(uuid.uuid_error))
     ELSE LET typed_uuid == TypedUuid_from_uuid(T, uuid.uuid)
          IN IF typed_uuid.kind = "Err" THEN typed_uuid
             ELSE LET v == TypedUuid_variant_type(T, typed_uuid.value)
                  IN IF v.kind = "Panic" THEN v
                     ELSE IF prefix_part # prefix(T, v.value)
                     THEN Err(UnknownPrefix(prefix_part, type_name(T)))
                     ELSE Ok(UserFriendlyUuid(typed_uuid.value))

\* parse_str looking the prefix part up among the prefixes of T before it
\* parses the Uuid part
UserFriendlyUuid_parse_str_prefix_first(T, s) ==
  LET underscore_pos == rfind_underscore(s) IN
  IF underscore_pos = 0
  THEN Err(InvalidFormat("expected format 'prefix_uuid', no underscore found"))
  ELSE IF SubSeq(s, 1, underscore_pos - 1)
            \notin {T.prefix_arms[k].prefix : k \in 1..Len(T.prefix_arms)}
  THEN Err(UnknownPrefix(SubSeq(s, 1, underscore_pos - 1), type_name(T)))
  ELSE parse_str_split(T, s, underscore_pos)

\* parse_str with the message "expected prefix_uuid"
UserFriendlyUuid_parse_str_short_message(T, s) ==
  LET underscore_pos == rfind_underscore(s) IN
  IF underscore_pos = 0
  THEN Err(InvalidFormat("expected prefix_uuid"))
  ELSE parse_str_split(T, s, underscore_pos)

\* parse_str reading a string without underscore as a Uuid with an empty
\* prefix (`unwrap_or(0)` for the split)
UserFriendlyUuid_parse_str_no_separator(T, s) ==
  LET underscore_pos == rfind_underscore(s) IN
  IF underscore_pos = 0
  THEN LET uuid == uuid_parse_str(s)
       IN IF uuid.kind = "Err" THEN Err(ParseError(uuid.uuid_error))
          ELSE LET typed_uuid == TypedUuid_from_uuid(T, uuid.uuid)
               IN IF typed_uuid.kind = "Err" THEN typed_uuid
                  ELSE Ok(UserFriendlyUuid(typed_uuid.value))
  ELSE parse_str_split(T, s, underscore_pos)

\* parse_str taking the category from the prefix part: the first variant
\* of T with that prefix, written into byte 0
UserFriendlyUuid_parse_str_by_prefix(T, s) ==
  LET underscore_pos == rfind_underscore(s) IN
  IF underscore_pos = 0
  THEN Err(InvalidFormat("expected format 'prefix_uuid', no underscore found"))
  ELSE LET prefix_part == SubSeq(s, 1, underscore_pos - 1)
           uuid_str == SubSeq(s, underscore_pos + 1, Len(s))
           uuid == uuid_parse_str(uuid_str)
       IN IF uuid.kind = "Err" THEN Err(ParseError(uuid.uuid_error))
          ELSE LET typed_uuid == TypedUuid_from_uuid(T, uuid.uuid)
                   hits == {k \in 1..Len(T.prefix_arms) :
                              T.prefix_arms[k].prefix = prefix_part}
               IN IF typed_uuid.kind = "Err" THEN typed_uuid
                  ELSE IF hits = {}
                  THEN Err(UnknownPrefix(prefix_part, type_name(T)))
                  ELSE Ok(UserFriendlyUuid(TypedUuid(
                            [uuid.uuid EXCEPT ![1] =
                               discriminant(T, T.prefix_arms[FirstArm(hits)].variant)])))

\* parse_str accepting the prefix of any variant of T
UserFriendlyUuid_parse_str_any_prefix(T, s) ==
  LET underscore_pos == rfind_underscore(s) IN
  IF underscore_pos = 0
  THEN Err(InvalidFormat("expected format 'prefix_uuid', no underscore found"))
  ELSE LET prefix_part == SubSeq(s, 1, underscore_pos - 1)
           uuid_str == SubSeq(s, underscore_pos + 1, Len(s))
           uuid == uuid_parse_str(uuid_str)
       IN IF uuid.kind = "Err" THEN Err(ParseError(uuid.uuid_error))
          ELSE LET typed_uuid == TypedUuid_from_uuid(T, uuid.uuid)
               IN IF typed_uuid.kind = "Err" THEN typed_uuid
                  ELSE IF \A t \in Variants(T) : prefix_part # prefix(T, t)
                  THEN Err(UnknownPrefix(prefix_part, type_name(T)))
                  ELSE Ok(UserFriendlyUuid(typed_uuid.value))

\* UserFriendlyUuid::parse_str(s)
UserFriendlyUuid_parse_str(T, s) ==
  LET underscore_pos == rfind_underscore(s) IN
  IF underscore_pos = 0
  THEN Err(InvalidFormat("expected format 'prefix_uuid', no underscore found"))
  ELSE LET prefix_part == SubSeq(s, 1, underscore_pos - 1)
           uuid_str == SubSeq(s, underscore_pos + 1, Len(s))
           uuid == uuid_parse_str(uuid_str)
       IN IF uuid.kind = "Err" THEN Err(ParseError(uuid.uuid_error))
          ELSE LET typed_uuid == TypedUuid_from_uuid(T, uuid.uuid)
               IN IF typed_uuid.kind = "Err" THEN typed_uuid
                  ELSE LET v == TypedUuid_variant_type(T, typed_uuid.value)
                       IN IF v.kind = "Panic" THEN v
                          ELSE IF prefix_part # prefix(T, v.value)
                          THEN Err(UnknownPrefix(prefix_part, type_name(T)))
                          ELSE Ok(UserFriendlyUuid(typed_uuid.value))

\* Display with a hyphen for the separator
UserFriendlyUuid_to_string_hyphen(T, y) ==
  LET p == UserFriendlyUuid_prefix(T, y)
  IN IF p.kind = "Panic" THEN p
     ELSE [kind |-> "String",
           chars |-> p.value \o <<"-">> \o uuid_to_string(TypedUuid_as_uuid(y.typed_uuid))]

\* impl Display for UserFriendlyUuid: `write!(f, "{}_{}", prefix, uuid)`
UserFriendlyUuid_to_string(T, y) ==
  LET p == UserFriendlyUuid_prefix(T, y)
  IN IF p.kind = "Panic" THEN p
     ELSE [kind |-> "String",
           chars |-> p.value \o <<"_">> \o uuid_to_string(TypedUuid_as_uuid(y.typed_uuid))]

\* Serialize for UserFriendlyUuid handing the Uuid alone to serialize_str
UserFriendlyUuid_serialize_bare(T, y) ==
  [kind |-> "Str", chars |-> uuid_to_string(TypedUuid_as_uuid(y.typed_uuid))]

\* impl Serialize for UserFriendlyUuid
UserFriendlyUuid_serialize(T, y) ==
  LET s == UserFriendlyUuid_to_string(T, y)
  IN IF s.kind = "Panic" THEN s ELSE [kind |-> "Str", chars |-> s.chars]

\* impl Deserialize for UserFriendlyUuid
UserFriendlyUuid_deserialize(T, wire) ==
  IF wire.kind # "Str" THEN Err([kind |-> "DeError", uuid_error |-> "invalid type"])
  ELSE LET r == UserFriendlyUuid_parse_str(T, wire.chars)
       IN IF r.kind = "Err" THEN Err(DeError(r.error)) ELSE r

(***************************************************************************)
(* The declarations that are derived.                                      *)
(***************************************************************************)
Unit(ident) == [ident |-> ident, fields |-> "Unit", attrs |-> <<>>]

\* a nested meta `key = "value"`
MetaStr(key, value) == [key |-> key, eq |-> TRUE, lit |-> "str", value |-> value]

\* a unit variant under #[uuid_type(prefix = "...")]
WithPrefix(ident, p) ==
  [ident |-> ident, fields |-> "Unit",
   attrs |-> <<[path |-> "uuid_type", style |-> "list",
                metas |-> <<MetaStr("prefix", p)>>]>>]

\* the variants of tests/uuid_tests.rs's UserType, and two more
UserTypePool ==
  <<Unit(<<"R","e","t","a","i","l">>), Unit(<<"B","u","s","i","n","e","s","s">>), WithPrefix(<<"O","r","g","a","n","i","z","a","t","i","o","n">>, <<"o","r","g">>),
    Unit(<<"E","n","t","e","r","p","r","i","s","e">>), Unit(<<"T","h","e","O","n","l","y","O","n","e">>)>>

\* the variants of tests/cases/pass/custom_prefix.rs and snake_case_acronyms.rs
DocumentTypePool ==
  <<WithPrefix(<<"P","u","r","c","h","a","s","e","O","r","d","e","r">>, <<"p","u","r","c","h","a","s","e","_","o","r","d","e","r">>), Unit(<<"H","T","T","P","S","e","r","v","e","r">>),
    WithPrefix(<<"Q","u","o","t","e">>, <<"q">>), Unit(<<"I","n","v","o","i","c","e">>), WithPrefix(<<"R","e","c","e","i","p","t">>, <<"r","c","p","t">>)>>

Min(a, b) == IF a < b THEN a ELSE b

\* the enum of the first n variants of a pool
EnumOf(ident, pool, n) ==
  [data |-> "enum", ident |-> ident, variants |-> SubSeq(pool, 1, Min(n, Len(pool)))]

\* the declarations the macro accepts
GoodDecls ==
  {EnumOf("UserType", UserTypePool, n) : n \in 1..MaxVariants}
  \cup {EnumOf("DocumentType", DocumentTypePool, n) : n \in 1..MaxVariants}

\* the declarations of tests/cases/fail
BadDecls ==
  { [data |-> "struct", ident |-> "NotAnEnum", variants |-> <<>>],
    [data |-> "enum", ident |-> "EmptyEnum", variants |-> <<>>],
    [data |-> "enum", ident |-> "HasTupleVariant",
     variants |-> <<Unit(<<"U","n","i","t">>),
                    [ident |-> <<"T","u","p","l","e">>, fields |-> "Unnamed", attrs |-> <<>>],
                    Unit(<<"A","l","s","o","U","n","i","t">>)>>],
    [data |-> "enum", ident |-> "HasStructVariant",
     variants |-> <<Unit(<<"U","n","i","t">>),
                    [ident |-> <<"S","t","r","u","c","t">>, fields |-> "Named", attrs |-> <<>>]>>],
    [data |-> "enum", ident |-> "EntityType",
     variants |-> <<[ident |-> <<"U","s","e","r">>, fields |-> "Unit",
                     attrs |-> <<[path |-> "uuid_type", style |-> "list",
                                  metas |-> <<MetaStr("prfx", <<"u","s","r">>)>>]>>],
                    Unit(<<"A","d","m","i","n">>)>>] }

\* variants of which two have the same prefix: Retail, and Reseller under
\* #[uuid_type(prefix = "retail")]
AccountTypePool ==
  <<Unit(<<"R","e","t","a","i","l">>), WithPrefix(<<"R","e","s","e","l","l","e","r">>, <<"r","e","t","a","i","l">>),
    Unit(<<"B","u","s","i","n","e","s","s">>)>>

\* the enums in which two variants share a prefix
SharedPrefixDecls == {EnumOf("AccountType", AccountTypePool, n) : n \in 2..MaxVariants}

Decls == GoodDecls \cup BadDecls \cup SharedPrefixDecls

(***************************************************************************)
(* The declarations the derive macro alone is run on.                      *)
(***************************************************************************)
\* the characters the enumerated variant names are made of
NameChars == {"A", "B", "a", "1", "_"}

\* the characters they start with
NameStarts == {"A", "B", "a"}

\* the variant names of 1..MaxNameLen characters
GeneratedNames ==
  UNION {{<<h>> \o [k \in 1..n |-> t[k]] : h \in NameStarts, t \in [1..n -> NameChars]} :
           n \in 0..(MaxNameLen - 1)}

\* variant names with acronyms, those of tests/cases/pass/snake_case_acronyms.rs
\* and of tests/uuid_tests.rs among them
AcronymNames ==
  { <<"R","e","t","a","i","l">>,
    <<"B","u","s","i","n","e","s","s">>,
    <<"E","n","t","e","r","p","r","i","s","e">>,
    <<"H","T","T","P","S","e","r","v","e","r">>,
    <<"H","T","T","P","S","P","r","o","x","y">>,
    <<"H","T","T","P","S","C","l","i","e","n","t">>,
    <<"T","C","P","S","o","c","k","e","t">>,
    <<"U","D","P","P","a","c","k","e","t">>,
    <<"J","S","O","N","P","a","r","s","e","r">>,
    <<"X","M","L","E","n","c","o","d","e","r">>,
    <<"T","h","e","O","n","l","y","O","n","e">> }

\* enum Named { <name> }
NameDecls ==
  {[data |-> "enum", ident |-> "Named", variants |-> <<Unit(n)>>] :
     n \in GeneratedNames \cup AcronymNames}

\* #[uuid_type(<metas>)]
Attr(metas) == [path |-> "uuid_type", style |-> "list", metas |-> metas]

\* the names of the variants of the enumerated enums, by position
ShapeNames ==
  <<<<"P","u","r","c","h","a","s","e","O","r","d","e","r">>, <<"H","T","T","P","S","e","r","v","e","r">>, <<"Q","u","o","t","e">>, <<"O","r","g","a","n","i","z","a","t","i","o","n">>, <<"I","n","v","o","i","c","e">>>>

\* the literal of the override of each, where it carries one
ShapeOverrides ==
  <<<<"p","u","r","c","h","a","s","e","_","o","r","d","e","r">>, <<"W","e","b","_","A","P","I">>, <<"q">>, <<"o","r","g">>, <<"i","n","v">>>>

\* what a variant of the enumerated enums looks like
Shapes ==
  {"unit", "prefix", "prfx", "tuple", "struct", "prefix_then_prfx",
   "prefix_and_prfx", "int_literal", "path_only", "other_attr"}

\* the k-th variant, in the given shape
Variant(k, shape) ==
  LET ident == ShapeNames[k]
      lit == ShapeOverrides[k]
      unit(attrs) == [ident |-> ident, fields |-> "Unit", attrs |-> attrs]
  IN CASE shape = "unit" -> Unit(ident)
       [] shape = "prefix" -> WithPrefix(ident, lit)
       [] shape = "prfx" -> unit(<<Attr(<<MetaStr("prfx", lit)>>)>>)
       [] shape = "tuple" -> [ident |-> ident, fields |-> "Unnamed", attrs |-> <<>>]
       [] shape = "struct" -> [ident |-> ident, fields |-> "Named", attrs |-> <<>>]
       \* #[uuid_type(prefix = "..")] #[uuid_type(prfx = "..")]
       [] shape = "prefix_then_prfx" ->
            unit(<<Attr(<<MetaStr("prefix", lit)>>), Attr(<<MetaStr("prfx", lit)>>)>>)
       \* #[uuid_type(prefix = "..", prfx = "..")]
       [] shape = "prefix_and_prfx" ->
            unit(<<Attr(<<MetaStr("prefix", lit), MetaStr("prfx", lit)>>)>>)
       \* #[uuid_type(prefix = 42)]
       [] shape = "int_literal" ->
            unit(<<Attr(<<[key |-> "prefix", eq |-> TRUE, lit |-> "int",
                           value |-> <<"4", "2">>]>>)>>)
       \* #[uuid_type]
       [] shape = "path_only" ->
            unit(<<[path |-> "uuid_type", style |-> "path", metas |-> <<>>]>>)
       \* #[doc = ".."]
       [] shape = "other_attr" ->
            unit(<<[path |-> "doc", style |-> "name_value", metas |-> <<>>]>>)

\* the enums of 0..MaxVariants variants, each variant in each shape
ShapeDecls ==
  UNION {{[data |-> "enum", ident |-> "Shaped",
           variants |-> [k \in 1..n |-> Variant(k, f[k])]] :
            f \in [1..n -> Shapes]} :
         n \in 0..Min(MaxVariants, Len(ShapeNames))}

\* the decimal digits
Digits == <<"0", "1", "2", "3", "4", "5", "6", "7", "8", "9">>

\* the name of the k-th (0-based) variant of a large enum: V000, V001, ...
Numbered(k) ==
  <<"V", Digits[((k \div 100) % 10) + 1], Digits[((k \div 10) % 10) + 1],
    Digits[(k % 10) + 1]>>

\* the numbers of variants of the large enums: that of
\* tests/cases/pass/many_variants.rs, and those around the limit
ManySizes == {100, 255, 256, 257, 258}

\* enum ManyVariants { V000, V001, ... }
ManyDecls ==
  {[data |-> "enum", ident |-> "ManyVariants",
    variants |-> [k \in 1..n |-> Unit(Numbered(k - 1))]] : n \in ManySizes}

DeriveDecls == Decls \cup NameDecls \cup ShapeDecls \cup ManyDecls

(***************************************************************************)
(* The inputs of the run-time operations.                                  *)
(***************************************************************************)
\* the values a byte is drawn from: 0x4f, 0xff, 0x00, 0x80, 0x8f, 0xc1
SampleBytes == <<79, 255, 0, 128, 143, 193>>

Samples == {SampleBytes[i] : i \in 1..Min(NumSamples, Len(SampleBytes))}

\* bytes 1..15 but 6 and 8: those of 550e8400-e29b-41d4-a716-446655440000
Filler == <<85, 14, 132, 0, 226, 155, 65, 212, 167, 22, 68, 102, 85, 68, 0, 0>>

\* 16 bytes with the given bytes 0, 6 and 8
Buf(b0, b6, b8) ==
  [i \in 1..16 |-> IF i = 1 THEN b0 ELSE IF i = 7 THEN b6
                   ELSE IF i = 9 THEN b8 ELSE Filler[i]]

\* what rng.fill(&mut bytes) may write
Draws == {Buf(b0, b6, b8) : b0 \in Samples, b6 \in Samples, b8 \in Samples}

\* the first bytes of the Uuids handed in: every discriminant of the largest
\* enum, the first byte that is none, and 255
FirstBytes == (0..MaxVariants) \cup {255}

\* the Uuids handed to from_uuid: of any version, and of version 8
UuidInputs ==
  LET raw == {Buf(b0, b6, b8) : b0 \in FirstBytes, b6 \in Samples, b8 \in Samples}
  IN raw \cup {new_v8(u) : u \in raw}

\* the Uuids whose other textual forms are tried
FormInputs == {Buf(b0, SampleBytes[1], SampleBytes[1]) : b0 \in FirstBytes}

\* the other forms Uuid::parse_str reads: simple, upper case, braced, URN
OtherForms(u) ==
  { HexDigits(u, HexLower),
    Hyphenate(HexDigits(u, HexUpper)),
    <<"{">> \o uuid_to_string(u) \o <<"}">>,
    UrnPrefix \o uuid_to_string(u) }

\* strings Uuid::parse_str rejects
Malformed(u) ==
  LET t == uuid_to_string(u)
  IN { <<>>,
       SubSeq(t, 1, 35),
       [t EXCEPT ![1] = "g"],
       [t EXCEPT ![9] = "0"],
       [t EXCEPT ![9] = "_"],
       t \o <<"0">> }

\* the strings parsed as a Uuid or a TypedUuid
UuidTexts ==
  {uuid_to_string(u) : u \in UuidInputs}
  \cup UNION {OtherForms(u) : u \in FormInputs}
  \cup Malformed(Buf(0, SampleBytes[1], SampleBytes[1]))

\* the Uuid parts of the strings parsed as a UserFriendlyUuid
FriendlyUuidTexts ==
  {uuid_to_string(u) : u \in FormInputs \cup {new_v8(u) : u \in FormInputs}}
  \cup OtherForms(Buf(0, SampleBytes[1], SampleBytes[1]))
  \cup Malformed(Buf(0, SampleBytes[1], SampleBytes[1]))

\* the prefixes of the type
Prefixes(T) == {T.prefix_arms[k].prefix : k \in 1..Len(T.prefix_arms)}

\* the prefix parts tried: the prefixes of the type and some that are none
PrefixInputs(T) == Prefixes(T) \cup {<<>>, <<"w","r","o","n","g">>, <<"p","u","r","c","h","a","s","e">>, <<"r","e","t","a","i","l">>, <<"a","_","b">>}

\* what stands between the prefix part and the Uuid part: the separator, or
\* nothing
Separators == {<<"_">>, <<>>}

\* the serialized values handed to TypedUuid's Deserialize
TypedWires ==
  {[kind |-> "Str", chars |-> t] : t \in FriendlyUuidTexts}
  \cup {[kind |-> "Bytes", bytes |-> u] : u \in FormInputs}
  \cup {[kind |-> "Bytes", bytes |-> SubSeq(Filler, 1, 15)]}

\* the Uuid parts of the strings handed to UserFriendlyUuid's Deserialize
WireUuidTexts == {uuid_to_string(u) : u \in FormInputs}

(***************************************************************************)
(* The state: the declaration, what the derive made of it, the last        *)
(* operation with its input and its result, and the identifier the         *)
(* current chain of conversions started from.                              *)
(***************************************************************************)
Init ==
  /\ decl \in Decls
  /\ impl = [kind |-> "Pending"]
  /\ op = "declare"
  /\ arg = NoneV
  /\ res = NoneV
  /\ origin = NoneV

\* #[derive(UuidType)] on the declaration
Derive ==
  /\ impl.kind = "Pending"
  /\ impl' = impl_uuid_type(decl)
  /\ op' = "derive"
  /\ UNCHANGED <<decl, arg, res, origin>>

\* the derive succeeded: the run-time operations exist
Derived == impl.kind = "Impl"

\* no value is at hand: the program is about to make its next identifier
Idle == Derived /\ res.kind = "None"

Step(o, a, r, org) ==
  /\ op' = o
  /\ arg' = a
  /\ res' = r
  /\ origin' = org
  /\ UNCHANGED <<decl, impl>>

IsId(v) == v.kind \in {"TypedUuid", "UserFriendlyUuid"}

\* the identifier the last operation returned, if it returned one
HasCur == IsId(res) \/ (res.kind = "Ok" /\ IsId(res.value))
Cur == IF res.kind = "Ok" THEN res.value ELSE res

\* the 16 bytes of an identifier of either type
IdBytes(id) == IF id.kind = "TypedUuid" THEN id.inner ELSE id.typed_uuid.inner

\* the identifier a chain of conversions started from
Chain == IF origin.kind = "None" THEN Cur ELSE origin

TypedNew ==
  /\ Idle
  /\ \E t \in Variants(impl), rnd \in Draws :
      Step("TypedUuid::new", [kind |-> "new", variant |-> t, rnd |-> rnd],
         TypedUuid_new(impl, t, rnd), NoneV)

FromUuid ==
  /\ Idle
  /\ \E u \in UuidInputs :
      Step("TypedUuid::from_uuid", [kind |-> "uuid", uuid |-> u],
         TypedUuid_from_uuid(impl, u), NoneV)

TypedFromStr ==
  /\ Idle
  /\ \E s \in UuidTexts :
      Step("TypedUuid::from_str", [kind |-> "text", chars |-> s],
         TypedUuid_from_str(impl, s), NoneV)

TypedDeserialize ==
  /\ Idle
  /\ \E w \in TypedWires :
      Step("TypedUuid::deserialize", w, TypedUuid_deserialize(impl, w), NoneV)

FriendlyNew ==
  /\ Idle
  /\ \E t \in Variants(impl), rnd \in Draws :
      Step("UserFriendlyUuid::new", [kind |-> "new", variant |-> t, rnd |-> rnd],
         UserFriendlyUuid_new(impl, t, rnd), NoneV)

FriendlyParseStr ==
  /\ Idle
  /\ \E p \in PrefixInputs(impl), sep \in Separators, t \in FriendlyUuidTexts :
      LET s == p \o sep \o t
      IN Step("UserFriendlyUuid::parse_str", [kind |-> "text", chars |-> s],
              UserFriendlyUuid_parse_str(impl, s), NoneV)

FriendlyDeserialize ==
  /\ Idle
  /\ \/ \E p \in PrefixInputs(impl), sep \in Separators, t \in WireUuidTexts :
          LET w == [kind |-> "Str", chars |-> p \o sep \o t]
          IN Step("UserFriendlyUuid::deserialize", w,
                  UserFriendlyUuid_deserialize(impl, w), NoneV)
     \/ \E u \in FormInputs :
          LET w == [kind |-> "Bytes", bytes |-> u]
          IN Step("UserFriendlyUuid::deserialize", w,
                  UserFriendlyUuid_deserialize(impl, w), NoneV)

\* UserFriendlyUuid::from(x) on the TypedUuid at hand
FromTypedUuid ==
  /\ Derived
  /\ HasCur /\ Cur.kind = "TypedUuid"
  /\ Step("UserFriendlyUuid::from_typed_uuid", Cur, from_typed_uuid(Cur), Chain)

\* y.into_typed_uuid() on the UserFriendlyUuid at hand
IntoTypedUuid ==
  /\ Derived
  /\ HasCur /\ Cur.kind = "UserFriendlyUuid"
  /\ Step("UserFriendlyUuid::into_typed_uuid", Cur, into_typed_uuid(Cur), Chain)

\* a copy of the identifier at hand (Clone, Copy)
CopyId ==
  /\ Derived
  /\ HasCur /\ op # "copy"
  /\ Step("copy", Cur, Cur, Chain)

\* x.serialize(serializer) on the TypedUuid at hand
TypedSerialize ==
  /\ Derived
  /\ HasCur /\ Cur.kind = "TypedUuid"
  /\ \E human_readable \in BOOLEAN :
       Step("TypedUuid::serialize", Cur, TypedUuid_serialize(Cur, human_readable), Chain)

\* what x.serialize(serializer) wrote, deserialized as a TypedUuid
TypedDeserializeSerialized ==
  /\ Derived
  /\ op = "TypedUuid::serialize"
  /\ Step("TypedUuid::deserialize",
          [kind |-> "rendered", wire |-> res, of |-> arg],
          TypedUuid_deserialize(impl, res), origin)

\* y.serialize(serializer) on the UserFriendlyUuid at hand
FriendlySerialize ==
  /\ Derived
  /\ HasCur /\ Cur.kind = "UserFriendlyUuid"
  /\ Step("UserFriendlyUuid::serialize", Cur, UserFriendlyUuid_serialize(impl, Cur), Chain)

\* what y.serialize(serializer) wrote, deserialized as a UserFriendlyUuid
FriendlyDeserializeSerialized ==
  /\ Derived
  /\ op = "UserFriendlyUuid::serialize" /\ res.kind = "Str"
  /\ Step("UserFriendlyUuid::deserialize",
          [kind |-> "rendered", wire |-> res, of |-> arg],
          UserFriendlyUuid_deserialize(impl, res), origin)

\* x.into_uuid() on the TypedUuid at hand
IntoUuid ==
  /\ Derived
  /\ HasCur /\ Cur.kind = "TypedUuid"
  /\ Step("TypedUuid::into_uuid", Cur,
          [kind |-> "Uuid", uuid |-> TypedUuid_into_uuid(Cur)], Chain)

\* TypedUuid::from_uuid on the Uuid x.into_uuid() returned
FromUuidReturned ==
  /\ Derived
  /\ op = "TypedUuid::into_uuid"
  /\ Step("TypedUuid::from_uuid",
          [kind |-> "rendered", uuid |-> res.uuid, of |-> arg],
          TypedUuid_from_uuid(impl, res.uuid), origin)

\* x.to_string() on the TypedUuid at hand
TypedToString ==
  /\ Derived
  /\ HasCur /\ Cur.kind = "TypedUuid"
  /\ Step("TypedUuid::to_string", Cur,
          [kind |-> "String", chars |-> TypedUuid_to_string(Cur)], Chain)

\* y.to_string() on the UserFriendlyUuid at hand
FriendlyToString ==
  /\ Derived
  /\ HasCur /\ Cur.kind = "UserFriendlyUuid"
  /\ Step("UserFriendlyUuid::to_string", Cur,
          UserFriendlyUuid_to_string(impl, Cur), Chain)

\* the string x.to_string() returned, parsed as a TypedUuid
TypedParseRendered ==
  /\ Derived
  /\ op = "TypedUuid::to_string" /\ res.kind = "String"
  /\ Step("TypedUuid::from_str",
          [kind |-> "rendered", chars |-> res.chars, of |-> arg],
          TypedUuid_from_str(impl, res.chars), origin)

\* the string y.to_string() returned, parsed as a UserFriendlyUuid
FriendlyParseRendered ==
  /\ Derived
  /\ op = "UserFriendlyUuid::to_string" /\ res.kind = "String"
  /\ Step("UserFriendlyUuid::parse_str",
          [kind |-> "rendered", chars |-> res.chars, of |-> arg],
          UserFriendlyUuid_parse_str(impl, res.chars), origin)

\* the string y.to_string() returned with its prefix segment replaced by p,
\* parsed as a UserFriendlyUuid
FriendlyParseReplaced ==
  /\ Derived
  /\ op = "UserFriendlyUuid::to_string" /\ res.kind = "String"
  /\ \E p \in PrefixInputs(impl) :
       LET old == UserFriendlyUuid_prefix(impl, arg).value
           s == p \o SubSeq(res.chars, Len(old) + 1, Len(res.chars))
       IN Step("UserFriendlyUuid::parse_str",
               [kind |-> "replaced", chars |-> s, prefix |-> p, old |-> old,
                of |-> arg],
               UserFriendlyUuid_parse_str(impl, s), origin)

\* the value at hand goes out of scope
Drop ==
  /\ Derived
  /\ res.kind # "None"
  /\ Step("drop", NoneV, NoneV, NoneV)

Next ==
  \/ Derive
  \/ Drop
  \/ TypedNew
  \/ FromUuid
  \/ TypedFromStr
  \/ TypedDeserialize
  \/ FriendlyNew
  \/ FriendlyParseStr
  \/ FriendlyDeserialize
  \/ FromTypedUuid
  \/ IntoTypedUuid
  \/ CopyId
  \/ TypedToString
  \/ FriendlyToString
  \/ TypedParseRendered
  \/ FriendlyParseRendered
  \/ FriendlyParseReplaced
  \/ TypedSerialize
  \/ TypedDeserializeSerialized
  \/ FriendlySerialize
  \/ IntoUuid
  \/ FromUuidReturned
  \/ FriendlyDeserializeSerialized

Spec == Init /\ [][Next]_vars

\* the derive macro alone, on every declaration
DeriveInit ==
  /\ decl \in DeriveDecls
  /\ impl = [kind |-> "Pending"]
  /\ op = "declare"
  /\ arg = NoneV
  /\ res = NoneV
  /\ origin = NoneV

DeriveNext == Derive

DeriveSpec == DeriveInit /\ [][DeriveNext]_vars

(***************************************************************************)
(* Properties.                                                             *)
(***************************************************************************)
\* a syntactically valid version-8 Uuid: the high nibble of byte 6 is 8 and
\* the top two bits of byte 8 are 10
IsV8(bytes) == bytes[7] \div 16 = 8 /\ bytes[9] \div 64 = 2

\* the discriminants of T
Image(T) == {discriminant(T, t) : t \in Variants(T)}

\* C1: the i-th declared variant of an accepted enum has discriminant i, and
\* from_discriminant is the exact partial inverse over the 256 bytes:
\* Some(variant b) for b < |T|, None for every other byte.
C1_DiscriminantInverse ==
  Derived =>
    LET n == Len(decl.variants) IN
    /\ \A i \in 0..(n - 1) : discriminant(impl, decl.variants[i + 1].ident) = i
    /\ \A b \in 0..255 :
         from_discriminant(impl, b) =
           IF b < n THEN Some(decl.variants[b + 1].ident) ELSE NoneV
    /\ \A t \in Variants(impl) :
         from_discriminant(impl, discriminant(impl, t)) = Some(t)

\* an enum of several variants was derived
C1_Witness == Derived /\ Len(decl.variants) >= 3

\* C2: TypedUuid::new(t) returns an identifier whose byte 0 is
\* discriminant(t) and whose variant_type() is t, whatever bytes were drawn;
\* the normalization of new_v8 leaves byte 0 as written.
C2_NewStoresDiscriminant ==
  op = "TypedUuid::new" =>
    LET d == discriminant(impl, arg.variant)
        written == [arg.rnd EXCEPT ![1] = d]
    IN /\ TypedUuid_as_bytes(res)[1] = d
       /\ TypedUuid_variant_type(impl, res) = [kind |-> "Returned", value |-> arg.variant]
       /\ new_v8(written)[1] = written[1]

\* new() was called for a variant that is not the first, and the byte drawn
\* for position 0 was not its discriminant
C2_Witness ==
  /\ op = "TypedUuid::new"
  /\ discriminant(impl, arg.variant) > 0
  /\ arg.rnd[1] # discriminant(impl, arg.variant)

\* C3: TypedUuid::new(t) produces a version-8 UUID for every t and every
\* draw: the high nibble of byte 6 is 8, the top two bits of byte 8 are 10.
C3_NewIsVersion8 ==
  op = "TypedUuid::new" =>
    /\ res.inner[7] \div 16 = 8
    /\ res.inner[9] \div 64 = 2
    /\ get_version_num(TypedUuid_as_uuid(res)) = 8

\* new() drew bytes 6 and 8 that were not those of a version-8 UUID
C3_Witness ==
  /\ op = "TypedUuid::new"
  /\ arg.rnd[7] \div 16 # 8
  /\ arg.rnd[9] \div 64 # 2

\* C4: from_uuid(u) is Ok exactly when byte 0 of u is a discriminant of T,
\* whatever the version and variant bits; on Ok the identifier holds the 16
\* bytes of u; otherwise the error is InvalidDiscriminant with found = byte 0.
C4_FromUuidValidatesByte0 ==
  op = "TypedUuid::from_uuid" =>
    LET u == arg.uuid
        valid == u[1] \in Image(impl)
    IN /\ (res.kind = "Ok") <=> valid
       /\ valid => res.value.kind = "TypedUuid" /\ TypedUuid_as_bytes(res.value) = u
       /\ ~valid => /\ res.kind = "Err"
                    /\ res.error.kind = "InvalidDiscriminant"
                    /\ res.error.found = u[1]

\* from_uuid accepted a Uuid that is not of version 8
C4_Witness ==
  /\ op = "TypedUuid::from_uuid"
  /\ res.kind = "Ok"
  /\ ~IsV8(arg.uuid)

\* C5 as stated: every typed identifier, whichever route created it, is a
\* syntactically valid version-8 UUID.
C5_EveryIdentifierIsVersion8 == HasCur => IsV8(IdBytes(Cur))

\* the operations that take an identifier and return one
Conversions ==
  {"UserFriendlyUuid::from_typed_uuid", "UserFriendlyUuid::into_typed_uuid", "copy"}

\* the operations that rebuild an identifier from a Uuid or a string
Reconstructions ==
  {"TypedUuid::from_uuid", "TypedUuid::from_str", "TypedUuid::deserialize",
   "UserFriendlyUuid::parse_str", "UserFriendlyUuid::deserialize"}

\* C5 amended: an identifier made by TypedUuid::new or UserFriendlyUuid::new
\* is a valid version-8 UUID, and converting or copying an identifier keeps
\* its version and variant bits; from_uuid, and the parsing built on it,
\* validates byte 0 only and returns the version and variant bits it was
\* given, version 8 or not.
C5_OnlyNewNormalizes ==
  /\ op \in {"TypedUuid::new", "UserFriendlyUuid::new"} => IsV8(IdBytes(res))
  /\ op \in Conversions => (IsV8(IdBytes(res)) <=> IsV8(IdBytes(arg)))
  /\ (op = "TypedUuid::from_uuid" /\ res.kind = "Ok")
       => (IsV8(IdBytes(res.value)) <=> IsV8(arg.uuid))
  /\ (op \in Reconstructions /\ arg.kind = "rendered" /\ res.kind = "Ok")
       => (IsV8(IdBytes(res.value)) <=> IsV8(IdBytes(arg.of)))

\* a string was parsed into a TypedUuid that is not of version 8
C5_Witness ==
  /\ op = "TypedUuid::from_str"
  /\ res.kind = "Ok"
  /\ ~IsV8(IdBytes(res.value))

\* C6: after any sequence of operations, byte 0 of every existing TypedUuid
\* or UserFriendlyUuid is a discriminant of T, and variant_type() returns a
\* category instead of reaching its panic.
C6_Byte0IsDiscriminant ==
  /\ HasCur =>
       /\ IdBytes(Cur)[1] \in Image(impl)
       /\ TypedUuid_variant_type(impl, TypedUuid(IdBytes(Cur))).kind = "Returned"
       /\ Cur.kind = "UserFriendlyUuid" =>
            UserFriendlyUuid_variant_type(impl, Cur).kind = "Returned"
  /\ IsId(origin) => IdBytes(origin)[1] \in Image(impl)
  /\ res.kind # "Panic"

\* an identifier of a category other than the first was rebuilt from a string
C6_Witness ==
  /\ op \in {"UserFriendlyUuid::parse_str", "UserFriendlyUuid::deserialize"}
  /\ arg.kind \in {"text", "Str"}
  /\ res.kind = "Ok"
  /\ IdBytes(res.value)[1] > 0

\* C7 (round trip A): parsing x.to_string() as a TypedUuid succeeds and
\* yields the 16 bytes, hence the category, of x.
C7_TypedRoundTrip ==
  (op = "TypedUuid::from_str" /\ arg.kind = "rendered") =>
    /\ res.kind = "Ok"
    /\ res.value.kind = "TypedUuid"
    /\ TypedUuid_as_bytes(res.value) = TypedUuid_as_bytes(arg.of)
    /\ TypedUuid_variant_type(impl, res.value) = TypedUuid_variant_type(impl, arg.of)

\* the rendering of a TypedUuid of a category other than the first, with
\* bits that are not those of version 8, was parsed back
C7_Witness ==
  /\ op = "TypedUuid::from_str"
  /\ arg.kind = "rendered"
  /\ arg.of.inner[1] > 0
  /\ ~IsV8(arg.of.inner)

\* C8 (round trip B): UserFriendlyUuid::parse_str of the rendering of
\* UserFriendlyUuid::from(x) succeeds and yields the 16 bytes of x, also
\* when the prefix contains underscores: the split is at the rightmost one.
C8_FriendlyRoundTrip ==
  (op = "UserFriendlyUuid::parse_str" /\ arg.kind = "rendered") =>
    /\ res.kind = "Ok"
    /\ res.value.kind = "UserFriendlyUuid"
    /\ IdBytes(res.value) = IdBytes(arg.of)
    /\ IdBytes(res.value) = IdBytes(origin)

\* the rendering of UserFriendlyUuid::from(x), x a TypedUuid of a category
\* whose prefix contains an underscore, was parsed back
C8_Witness ==
  /\ op = "UserFriendlyUuid::parse_str"
  /\ arg.kind = "rendered"
  /\ origin.kind = "TypedUuid"
  /\ res.kind = "Ok"
  /\ "_" \in Range(UserFriendlyUuid_prefix(impl, res.value).value)

\* C9: y.to_string() is the prefix of the category in byte 0, one
\* underscore, and the 36-character hyphenated rendering of the Uuid: its
\* length is len(prefix) + 1 + 36 and it starts with "<prefix>_".
C9_FriendlyRendering ==
  op = "UserFriendlyUuid::to_string" =>
    LET s == res.chars
        p == prefix(impl, from_discriminant(impl, IdBytes(arg)[1]).value)
        u == SubSeq(s, Len(p) + 2, Len(s))
    IN /\ res.kind = "String"
       /\ Len(s) = Len(p) + 1 + 36
       /\ SubSeq(s, 1, Len(p)) = p
       /\ s[Len(p) + 1] = "_"
       /\ Len(u) = 36
       /\ {i \in 1..36 : u[i] = "-"} = {9, 14, 19, 24}
       /\ \A i \in (1..36) \ {9, 14, 19, 24} : u[i] \in Range(HexLower)
       /\ uuid_parse_str(u) = [kind |-> "Ok", uuid |-> IdBytes(arg)]
       /\ UserFriendlyUuid_prefix(impl, arg) = [kind |-> "Returned", value |-> p]

\* a UserFriendlyUuid of a category other than the first was rendered
C9_Witness ==
  /\ op = "UserFriendlyUuid::to_string"
  /\ res.kind = "String"
  /\ IdBytes(arg)[1] > 0

\* C10: the rendering of a UserFriendlyUuid with its prefix segment replaced
\* by any other string p fails to parse with UnknownPrefix { prefix: p }; the
\* comparison is exact string equality.
C10_PrefixMismatch ==
  (op = "UserFriendlyUuid::parse_str" /\ arg.kind = "replaced") =>
    IF arg.prefix = arg.old
    THEN res.kind = "Ok"
    ELSE /\ res.kind = "Err"
         /\ res.error.kind = "UnknownPrefix"
         /\ res.error.prefix = arg.prefix
         /\ res.error.type_name = type_name(impl)

\* the prefix was replaced by the prefix of another category of T
C10_Witness ==
  /\ op = "UserFriendlyUuid::parse_str"
  /\ arg.kind = "replaced"
  /\ arg.prefix # arg.old
  /\ arg.prefix \in Prefixes(impl)


\* C11: UserFriendlyUuid::parse_str on a string that holds no underscore
\* returns InvalidFormat, whatever else the string is, a well-formed UUID
\* with a valid discriminant included.
C11_NoUnderscoreIsInvalidFormat ==
  (op = "UserFriendlyUuid::parse_str" /\ "_" \notin Range(arg.chars)) =>
    /\ res.kind = "Err"
    /\ res.error.kind = "InvalidFormat"

\* a well-formed UUID with a valid discriminant, and no underscore, was parsed
C11_Witness ==
  /\ op = "UserFriendlyUuid::parse_str"
  /\ "_" \notin Range(arg.chars)
  /\ TypedUuid_from_str(impl, arg.chars).kind = "Ok"


\* the positions (1-based) of name s an underscore is emitted before: an
\* uppercase letter that is not first and has a lowercase letter before it
\* or after it
UnderscoreBefore(s) ==
  {i \in 2..Len(s) :
     /\ is_uppercase(s[i])
     /\ \/ is_lowercase(s[i - 1])
        \/ (i < Len(s) /\ is_lowercase(s[i + 1]))}

\* out is s with an underscore before each position of UnderscoreBefore(s),
\* uppercase letters in lowercase and every other character unchanged
IsSnakeCaseOf(s, out) ==
  LET U == UnderscoreBefore(s)
      at(i) == i + Cardinality({j \in U : j <= i})
  IN /\ Len(out) = Len(s) + Cardinality(U)
     /\ \A i \in 1..Len(s) :
          /\ out[at(i)] = (IF is_uppercase(s[i]) THEN to_lowercase(s[i]) ELSE s[i])
          /\ i \in U => out[at(i) - 1] = "_"

\* the examples of the snake-case transform: <<name, prefix>>
SnakeCaseExamples ==
  { <<<<"R","e","t","a","i","l">>, <<"r","e","t","a","i","l">>>>,
    <<<<"B","u","s","i","n","e","s","s">>, <<"b","u","s","i","n","e","s","s">>>>,
    <<<<"E","n","t","e","r","p","r","i","s","e">>, <<"e","n","t","e","r","p","r","i","s","e">>>>,
    <<<<"H","T","T","P","S","e","r","v","e","r">>, <<"h","t","t","p","_","s","e","r","v","e","r">>>>,
    <<<<"H","T","T","P","S","P","r","o","x","y">>, <<"h","t","t","p","s","_","p","r","o","x","y">>>>,
    <<<<"H","T","T","P","S","C","l","i","e","n","t">>, <<"h","t","t","p","s","_","c","l","i","e","n","t">>>>,
    <<<<"T","C","P","S","o","c","k","e","t">>, <<"t","c","p","_","s","o","c","k","e","t">>>>,
    <<<<"U","D","P","P","a","c","k","e","t">>, <<"u","d","p","_","p","a","c","k","e","t">>>>,
    <<<<"J","S","O","N","P","a","r","s","e","r">>, <<"j","s","o","n","_","p","a","r","s","e","r">>>>,
    <<<<"X","M","L","E","n","c","o","d","e","r">>, <<"x","m","l","_","e","n","c","o","d","e","r">>>>,
    <<<<"T","h","e","O","n","l","y","O","n","e">>, <<"t","h","e","_","o","n","l","y","_","o","n","e">>>> }

\* the variants of the declaration that carry no attribute
Plain == {k \in 1..Len(decl.variants) : decl.variants[k].attrs = <<>>}

\* C12: the prefix derived for a variant without override is the snake-case
\* transform of its name: an underscore before the lowercase form of an
\* uppercase letter at position i iff i > 0 and the previous character is
\* lowercase or the next one exists and is lowercase, every other character
\* unchanged; Retail -> retail, HTTPServer -> http_server, HTTPSProxy ->
\* https_proxy, TheOnlyOne -> the_only_one and the other examples hold.
C12_SnakeCasePrefix ==
  Derived =>
    \A k \in Plain :
      LET name == decl.variants[k].ident
          p == prefix(impl, name)
      IN /\ IsSnakeCaseOf(name, p)
         /\ \A e \in SnakeCaseExamples : name = e[1] => p = e[2]

\* a name was transformed in which an underscore goes before the last letter
\* of an acronym: an uppercase letter after a character that is not lowercase
C12_Witness ==
  /\ Derived
  /\ \E k \in Plain :
       LET name == decl.variants[k].ident
       IN /\ \E i \in UnderscoreBefore(name) : ~is_lowercase(name[i - 1])
          /\ IsSnakeCaseOf(name, prefix(impl, name))
          /\ \E e \in SnakeCaseExamples : name = e[1] /\ prefix(impl, name) = e[2]


\* the literals of the overrides `prefix = "S"` a variant carries
OverridesOf(v) ==
  {v.attrs[a].metas[m].value :
     <<a, m>> \in {<<a2, m2>> \in (1..Len(v.attrs)) \X (1..2) :
                    /\ v.attrs[a2].path = "uuid_type"
                    /\ m2 <= Len(v.attrs[a2].metas)
                    /\ v.attrs[a2].metas[m2].key = "prefix"
                    /\ v.attrs[a2].metas[m2].lit = "str"}}

\* the variant carries no uuid_type attribute
NoOverride(v) == \A a \in 1..Len(v.attrs) : v.attrs[a].path # "uuid_type"

\* the declaration with the attributes of its k-th variant taken away
WithoutAttrs(d, k) == [d EXCEPT !.variants[k].attrs = <<>>]

\* C13: a variant that carries uuid_type(prefix = "S") has prefix() exactly
\* S, underscores kept and no snake-case transform applied; a variant that
\* carries no override has the snake-case transform of its name; and the
\* override on one variant changes neither the prefix nor the discriminant
\* of any other variant.
C13_PrefixResolution ==
  Derived =>
    \A k \in 1..Len(decl.variants) :
      LET v == decl.variants[k]
          without == impl_uuid_type(WithoutAttrs(decl, k))
      IN /\ \A S \in OverridesOf(v) : prefix(impl, v.ident) = S
         /\ NoOverride(v) => IsSnakeCaseOf(v.ident, prefix(impl, v.ident))
         /\ OverridesOf(v) # {} =>
              /\ without.kind = "Impl"
              /\ \A j \in (1..Len(decl.variants)) \ {k} :
                   LET w == decl.variants[j].ident
                   IN /\ prefix(impl, w) = prefix(without, w)
                      /\ discriminant(impl, w) = discriminant(without, w)
                      /\ discriminant(impl, w) = j - 1

\* a variant under an override whose literal holds an underscore and an
\* uppercase letter, next to a variant without override
C13_Witness ==
  /\ Derived
  /\ \E k, j \in 1..Len(decl.variants) :
       LET v == decl.variants[k]
       IN /\ j # k
          /\ \E S \in OverridesOf(v) :
               /\ "_" \in Range(S)
               /\ \E c \in Range(S) : is_uppercase(c)
               /\ prefix(impl, v.ident) = S
          /\ decl.variants[j].attrs = <<>>


\* the declaration has a variant with a uuid_type attribute that uses a key
\* other than prefix
HasUnknownKey(d) ==
  \E k \in 1..Len(d.variants) :
    \E a \in 1..Len(d.variants[k].attrs) :
      LET attr == d.variants[k].attrs[a]
      IN /\ attr.path = "uuid_type"
         /\ \E m \in 1..Len(attr.metas) : attr.metas[m].key # "prefix"

\* the declaration is one of those that are to be rejected: (a) not an enum,
\* (b) an empty enum, (c) an enum with a tuple-shaped or struct-shaped
\* variant, (d) an enum of more than 256 variants, (e) an unknown key
ToBeRejected(d) ==
  \/ d.data # "enum"
  \/ d.variants = <<>>
  \/ \E k \in 1..Len(d.variants) : d.variants[k].fields \in {"Unnamed", "Named"}
  \/ Len(d.variants) > 256
  \/ HasUnknownKey(d)

\* every uuid_type attribute of the declaration is a list of `key = "string"`
WellFormedAttrs(d) ==
  \A k \in 1..Len(d.variants) :
    \A a \in 1..Len(d.variants[k].attrs) :
      LET attr == d.variants[k].attrs[a]
      IN attr.path = "uuid_type" =>
           /\ attr.style = "list"
           /\ \A m \in 1..Len(attr.metas) : attr.metas[m].eq /\ attr.metas[m].lit = "str"

\* C14: the derive macro rejects with a compile error, emitting no impl,
\* every declaration that is not an enum, is an empty enum, has a tuple-shaped
\* or struct-shaped variant, has more than 256 variants, or has a variant
\* whose uuid_type attribute uses a key other than prefix; every other enum
\* of 1..256 unit variants (its attributes being well-formed) is accepted.
C14_DeriveRejections ==
  op = "derive" =>
    /\ ToBeRejected(decl) => impl.kind = "CompileError"
    /\ (~ToBeRejected(decl) /\ WellFormedAttrs(decl)) => impl.kind = "Impl"


\* what a deserialization was given
Wire == IF arg.kind = "rendered" THEN arg.wire ELSE arg

\* C15: a TypedUuid serializes exactly as its Uuid serializes, without
\* prefix; deserialization decodes a Uuid and validates it through from_uuid:
\* it returns the same 16 bytes when byte 0 is a discriminant of T and a
\* deserialization error otherwise; so deserialize(serialize(x)) has the
\* bytes and the category of x.
C15_TypedSerde ==
  /\ op = "TypedUuid::serialize" =>
       /\ res \in {Uuid_serialize(TypedUuid_as_uuid(arg), h) : h \in BOOLEAN}
       /\ res.kind = "Str" => res.chars = uuid_to_string(arg.inner)
       /\ res.kind = "Bytes" => res.bytes = arg.inner
  /\ op = "TypedUuid::deserialize" =>
       LET uuid == Uuid_deserialize(Wire)
       IN /\ uuid.kind = "Err" => (res.kind = "Err" /\ res.error.kind = "DeError")
          /\ (uuid.kind = "Ok" /\ uuid.uuid[1] \in Image(impl)) =>
               res = Ok(TypedUuid(uuid.uuid))
          /\ (uuid.kind = "Ok" /\ uuid.uuid[1] \notin Image(impl)) =>
               /\ res.kind = "Err"
               /\ res.error.kind = "DeError"
               /\ res.error.custom.kind = "InvalidDiscriminant"
  /\ (op = "TypedUuid::deserialize" /\ arg.kind = "rendered") =>
       /\ res.kind = "Ok"
       /\ TypedUuid_as_bytes(res.value) = TypedUuid_as_bytes(arg.of)
       /\ TypedUuid_variant_type(impl, res.value) = TypedUuid_variant_type(impl, arg.of)

\* a TypedUuid of a category other than the first came back from the bytes
\* it was serialized to
C15_Witness ==
  /\ op = "TypedUuid::deserialize"
  /\ arg.kind = "rendered"
  /\ arg.wire.kind = "Bytes"
  /\ res = Ok(arg.of)
  /\ TypedUuid_as_bytes(arg.of)[1] > 0


\* the errors of UserFriendlyUuid::parse_str
ParseStrErrors == {"InvalidFormat", "ParseError", "InvalidDiscriminant", "UnknownPrefix"}

\* C16: a UserFriendlyUuid serializes as one string, its rendered
\* "<prefix>_<uuid>" form and not the bare Uuid; deserialization reads a
\* string and runs parse_str on it, and every error of parse_str becomes a
\* deserialization error; so deserialize(serialize(y)) renders to the string
\* y renders to and has the category of y.
C16_FriendlySerde ==
  /\ op = "UserFriendlyUuid::serialize" =>
       /\ res.kind = "Str"
       /\ res.chars = UserFriendlyUuid_to_string(impl, arg).chars
       /\ res.chars = UserFriendlyUuid_prefix(impl, arg).value \o <<"_">>
                        \o uuid_to_string(IdBytes(arg))
  /\ (op = "UserFriendlyUuid::deserialize" /\ Wire.kind = "Str") =>
       LET parsed == UserFriendlyUuid_parse_str(impl, Wire.chars)
       IN IF parsed.kind = "Ok" THEN res = parsed
          ELSE /\ parsed.error.kind \in ParseStrErrors
               /\ res = Err(DeError(parsed.error))
  /\ (op = "UserFriendlyUuid::deserialize" /\ Wire.kind # "Str") =>
       (res.kind = "Err" /\ res.error.kind = "DeError")
  /\ (op = "UserFriendlyUuid::deserialize" /\ arg.kind = "rendered") =>
       /\ res.kind = "Ok"
       /\ UserFriendlyUuid_to_string(impl, res.value) = UserFriendlyUuid_to_string(impl, arg.of)
       /\ UserFriendlyUuid_variant_type(impl, res.value)
            = UserFriendlyUuid_variant_type(impl, arg.of)

\* a UserFriendlyUuid of a variant under a prefix override came back from
\* the string it was serialized to
C16_Witness ==
  /\ op = "UserFriendlyUuid::deserialize"
  /\ arg.kind = "rendered"
  /\ arg.wire.chars = UserFriendlyUuid_to_string(impl, arg.of).chars
  /\ res = Ok(arg.of)
  /\ UserFriendlyUuid_prefix(impl, arg.of).value
       # to_snake_case(UserFriendlyUuid_variant_type(impl, arg.of).value)


\* C17: the conversions between TypedUuid and UserFriendlyUuid never fail
\* and keep all 16 bytes, so TypedUuid::from(UserFriendlyUuid::from(x)) = x;
\* as_uuid, into_uuid, as_bytes and From<TypedUuid> for Uuid expose the same
\* 16 bytes; TypedUuid::from_uuid(x.into_uuid()) = Ok(x); no operation
\* changes the bytes of an existing identifier; and two identifiers are equal
\* exactly when their 16 bytes are.
C17_LosslessConversions ==
  /\ op = "UserFriendlyUuid::from_typed_uuid" =>
       (res.kind = "UserFriendlyUuid" /\ IdBytes(res) = IdBytes(arg))
  /\ op = "UserFriendlyUuid::into_typed_uuid" =>
       (res.kind = "TypedUuid" /\ IdBytes(res) = IdBytes(arg))
  /\ (HasCur /\ Cur.kind = "TypedUuid") =>
       /\ into_typed_uuid(from_typed_uuid(Cur)) = Cur
       /\ TypedUuid_as_uuid(Cur) = TypedUuid_as_bytes(Cur)
       /\ TypedUuid_into_uuid(Cur) = TypedUuid_as_bytes(Cur)
       /\ Uuid_from(Cur) = TypedUuid_as_bytes(Cur)
       /\ TypedUuid_from_uuid(impl, TypedUuid_into_uuid(Cur)) = Ok(Cur)
       /\ \A u \in UuidInputs :
            LET other == TypedUuid_from_uuid(impl, u)
            IN other.kind = "Ok" =>
                 (other.value = Cur <=> TypedUuid_as_bytes(other.value) = TypedUuid_as_bytes(Cur))
  /\ op = "TypedUuid::into_uuid" => res.uuid = IdBytes(arg)
  /\ (op = "TypedUuid::from_uuid" /\ arg.kind = "rendered") => res = Ok(arg.of)
  /\ (HasCur /\ IsId(arg)) => IdBytes(Cur) = IdBytes(arg)
  /\ (HasCur /\ IsId(origin)) => IdBytes(Cur) = IdBytes(origin)
  /\ (HasCur /\ IsId(origin) /\ Cur.kind = origin.kind) => Cur = origin

\* a TypedUuid that is not of version 8 was converted to a UserFriendlyUuid
\* and back, and is the TypedUuid it was
C17_Witness ==
  /\ op = "UserFriendlyUuid::into_typed_uuid"
  /\ origin.kind = "TypedUuid"
  /\ res = origin
  /\ ~IsV8(IdBytes(res))


\* the error, or "Ok", that the checks of parse_str in their order give for
\* the string s: no underscore, then the text after the last underscore is no
\* Uuid, then byte 0 is no discriminant of T, then the text before the last
\* underscore is not the prefix of the category of byte 0
FirstFailure(T, s) ==
  LET underscores == {i \in 1..Len(s) : s[i] = "_"}
      last == CHOOSE i \in underscores : \A j \in underscores : j <= i
      uuid == uuid_parse_str(SubSeq(s, last + 1, Len(s)))
  IN IF underscores = {} THEN "InvalidFormat"
     ELSE IF uuid.kind = "Err" THEN "ParseError"
     ELSE IF uuid.uuid[1] \notin Image(T) THEN "InvalidDiscriminant"
     ELSE IF SubSeq(s, 1, last - 1) # prefix(T, from_discriminant(T, uuid.uuid[1]).value)
     THEN "UnknownPrefix"
     ELSE "Ok"

\* C18: parse_str checks in a fixed order and returns the first failure
\* only: no underscore gives InvalidFormat; then a Uuid part that does not
\* parse gives ParseError, also under a wrong prefix; then a byte 0 that is
\* no discriminant gives InvalidDiscriminant, also under a wrong prefix;
\* then a prefix part that differs from the prefix of the category gives
\* UnknownPrefix, which is returned only when the Uuid part is well-formed
\* and carries a valid discriminant.
C18_CheckOrder ==
  op = "UserFriendlyUuid::parse_str" =>
    LET first == FirstFailure(impl, arg.chars)
    IN /\ first = "Ok" => res.kind = "Ok"
       /\ first # "Ok" => (res.kind = "Err" /\ res.error.kind = first)
       /\ (res.kind = "Err" /\ res.error.kind = "UnknownPrefix") =>
            LET uuid == uuid_parse_str(
                          SubSeq(arg.chars, rfind_underscore(arg.chars) + 1, Len(arg.chars)))
            IN uuid.kind = "Ok" /\ uuid.uuid[1] \in Image(impl)

\* a string with a prefix part that is no prefix of T and a Uuid part that
\* does not parse gave ParseError
C18_Witness ==
  /\ op = "UserFriendlyUuid::parse_str"
  /\ arg.kind = "text"
  /\ rfind_underscore(arg.chars) > 1
  /\ SubSeq(arg.chars, 1, rfind_underscore(arg.chars) - 1) \notin Prefixes(impl)
  /\ res.kind = "Err"
  /\ res.error.kind = "ParseError"


\* C19 as stated: when the input of parse_str holds no underscore, the error
\* is InvalidFormat with exactly the message "expected prefix_uuid".
C19_MessageAsStated ==
  (op = "UserFriendlyUuid::parse_str" /\ "_" \notin Range(arg.chars)) =>
    res = Err(InvalidFormat("expected prefix_uuid"))

\* C19 amended: when the input of parse_str holds no underscore, the error
\* is InvalidFormat with exactly the message
\* "expected format 'prefix_uuid', no underscore found".
C19_MessageOfInvalidFormat ==
  (op = "UserFriendlyUuid::parse_str" /\ "_" \notin Range(arg.chars)) =>
    res = Err(InvalidFormat("expected format 'prefix_uuid', no underscore found"))

\* a string of a prefix of T and a Uuid with nothing between them was parsed
C19_Witness ==
  /\ op = "UserFriendlyUuid::parse_str"
  /\ "_" \notin Range(arg.chars)
  /\ \E p \in Prefixes(impl) :
       /\ Len(p) < Len(arg.chars)
       /\ SubSeq(arg.chars, 1, Len(p)) = p
       /\ uuid_parse_str(SubSeq(arg.chars, Len(p) + 1, Len(arg.chars))).kind = "Ok"
  /\ res.error.message = "expected format 'prefix_uuid', no underscore found"


\* the declaration is an enum of unit variants without attributes
UnitEnum(d) ==
  /\ d.data = "enum"
  /\ \A k \in 1..Len(d.variants) :
       d.variants[k].fields = "Unit" /\ d.variants[k].attrs = <<>>

\* C20: the narrowing of a variant's position to one byte never wraps: in
\* every accepted enum the discriminants are pairwise distinct and are the
\* positions 0..|T|-1; an enum of exactly 256 unit variants is accepted, its
\* last variant has discriminant 255 and from_discriminant returns Some for
\* all 256 bytes; an enum of 257 or more unit variants is rejected, no
\* discriminant being computed.
C20_NoWrap ==
  op = "derive" =>
    LET n == Len(decl.variants) IN
    /\ Derived =>
         /\ \A k \in 1..n :
              /\ impl.discriminant_arms[k].discriminant = k - 1
              /\ discriminant(impl, decl.variants[k].ident) = k - 1
         /\ Image(impl) = 0..(n - 1)
         /\ Cardinality(Image(impl)) = n
    /\ (UnitEnum(decl) /\ n = 256) =>
         /\ Derived
         /\ discriminant(impl, decl.variants[n].ident) = 255
         /\ \A b \in 0..255 : from_discriminant(impl, b).kind = "Some"
    /\ (UnitEnum(decl) /\ n >= 257) =>
         /\ impl.kind = "CompileError"
         /\ "discriminant_arms" \notin DOMAIN impl

\* an enum of 256 unit variants was derived and its last variant has
\* discriminant 255
C20_Witness ==
  /\ Derived
  /\ UnitEnum(decl)
  /\ Len(decl.variants) = 256
  /\ discriminant(impl, decl.variants[256].ident) = 255
  /\ from_discriminant(impl, 255).kind = "Some"


\* C21: parsing a TypedUuid from text is parsing a Uuid and then from_uuid:
\* a string that is no parseable Uuid gives ParseError, never
\* InvalidDiscriminant; a parseable Uuid whose byte 0 is no discriminant of T
\* gives InvalidDiscriminant with found = that byte; otherwise the result
\* holds exactly the 16 bytes parsed, whatever the version and variant bits.
C21_FromStrIsParseThenFromUuid ==
  op = "TypedUuid::from_str" =>
    LET uuid == uuid_parse_str(arg.chars)
    IN /\ uuid.kind = "Err" => (res.kind = "Err" /\ res.error.kind = "ParseError")
       /\ (uuid.kind = "Ok" /\ uuid.uuid[1] \notin Image(impl)) =>
            /\ res.kind = "Err"
            /\ res.error.kind = "InvalidDiscriminant"
            /\ res.error.found = uuid.uuid[1]
       /\ (uuid.kind = "Ok" /\ uuid.uuid[1] \in Image(impl)) =>
            /\ res = Ok(TypedUuid(uuid.uuid))
            /\ TypedUuid_as_bytes(res.value) = uuid.uuid
       /\ uuid.kind = "Ok" => res = TypedUuid_from_uuid(impl, uuid.uuid)

\* a string in a form other than the hyphenated lower-case one, of a Uuid
\* that is not of version 8, was parsed into a TypedUuid of those bytes
C21_Witness ==
  /\ op = "TypedUuid::from_str"
  /\ arg.kind = "text"
  /\ res.kind = "Ok"
  /\ uuid_to_string(IdBytes(res.value)) # arg.chars
  /\ ~IsV8(IdBytes(res.value))
  /\ IdBytes(res.value) = uuid_parse_str(arg.chars).uuid


\* C22: whenever parse_str(s) returns Ok(y), s is prefix(y), an underscore
\* and the text u after the last underscore of s, and u parses to exactly
\* the 16 bytes of y; the category of y is that of byte 0 of those bytes
\* alone, the prefix text only decides acceptance: a string is never accepted
\* under a category whose prefix differs from its prefix text, also when two
\* categories of T share a prefix.
C22_ParseSoundness ==
  (op = "UserFriendlyUuid::parse_str" /\ res.kind = "Ok") =>
    LET s == arg.chars
        y == res.value
        underscores == {i \in 1..Len(s) : s[i] = "_"}
        last == CHOOSE i \in underscores : \A j \in underscores : j <= i
        u == SubSeq(s, last + 1, Len(s))
        category == UserFriendlyUuid_variant_type(impl, y)
    IN /\ underscores # {}
       /\ y.kind = "UserFriendlyUuid"
       /\ uuid_parse_str(u) = [kind |-> "Ok", uuid |-> IdBytes(y)]
       /\ category.kind = "Returned"
       /\ category.value = from_discriminant(impl, uuid_parse_str(u).uuid[1]).value
       /\ discriminant(impl, category.value) = uuid_parse_str(u).uuid[1]
       /\ s = prefix(impl, category.value) \o <<"_">> \o u
       /\ s = UserFriendlyUuid_prefix(impl, y).value \o <<"_">> \o u
       /\ SubSeq(s, 1, last - 1) = prefix(impl, category.value)

\* a string was accepted whose prefix text is the prefix of two categories,
\* as an identifier of the second of them
C22_Witness ==
  /\ op = "UserFriendlyUuid::parse_str"
  /\ arg.kind = "text"
  /\ res.kind = "Ok"
  /\ \E t \in Variants(impl) :
       /\ t # UserFriendlyUuid_variant_type(impl, res.value).value
       /\ prefix(impl, t) = UserFriendlyUuid_prefix(impl, res.value).value
       /\ discriminant(impl, t) < IdBytes(res.value)[1]


\* the name is made of ASCII letters and digits and starts with a letter
IsAlphanumericName(s) ==
  /\ s # <<>>
  /\ is_uppercase(s[1]) \/ is_lowercase(s[1])
  /\ \A i \in 1..Len(s) :
       is_uppercase(s[i]) \/ is_lowercase(s[i]) \/ s[i] \in Range(Digits)

NotUnderscore(c) == c # "_"

\* the string in lowercase
Lowercased(s) == [i \in 1..Len(s) |-> to_lowercase(s[i])]

\* C23: for every name of ASCII letters and digits that starts with a
\* letter, the snake-case output holds no uppercase letter, does not start
\* with an underscore, holds no two adjacent underscores, and without its
\* underscores is exactly the lowercased name; the transform applied to its
\* own output returns it unchanged.
C23_SnakeCaseShape ==
  Derived =>
    \A k \in Plain :
      LET name == decl.variants[k].ident
          out == prefix(impl, name)
      IN IsAlphanumericName(name) =>
           /\ \A i \in 1..Len(out) : ~is_uppercase(out[i])
           /\ out[1] # "_"
           /\ \A i \in 1..(Len(out) - 1) : ~(out[i] = "_" /\ out[i + 1] = "_")
           /\ SelectSeq(out, NotUnderscore) = Lowercased(name)
           /\ to_snake_case(out) = out

\* a name with a digit and with uppercase letters after its first character
\* was transformed, and underscores were put into it
C23_Witness ==
  /\ Derived
  /\ \E k \in Plain :
       LET name == decl.variants[k].ident
           out == prefix(impl, name)
       IN /\ IsAlphanumericName(name)
          /\ \E d \in Range(Digits) : d \in Range(name)
          /\ Cardinality({i \in 1..Len(out) : out[i] = "_"}) >= 1
          /\ SelectSeq(out, NotUnderscore) = Lowercased(name)
          /\ Len(out) > Len(name)

====
